---- MODULE Spec2Model ----
(***************************************************************************)
(* A model of Vec2d<T> (src/src/lib.rs): a Vec<T> addressed as a 2d grid.  *)
(* The state is one grid (tiles, width), the build profile that decides    *)
(* what usize overflow does, and the record of the last call with its      *)
(* arguments and its outcome.  Backing indices are 0-based as in the       *)
(* source; TLA+ sequences are 1-based, so tile i is tiles[i + 1].          *)
(***************************************************************************)
EXTENDS Integers, Sequences, FiniteSets

\* usize is modelled with UsizeBits bits: values 0 .. Modulus - 1.
UsizeBits == 3
\* Longest backing Vec a constructor is asked for (memory bound).
MaxLen == 4

\* Largest small coordinate a caller probes with.
MaxCoord == 2

Modulus == 2 ^ UsizeBits
Usize == 0 .. (Modulus - 1)
\* The coordinates callers pass: the small ones, and one large enough for
\* y * width to leave the usize range.
Coords == (0 .. MaxCoord) \cup {Modulus \div 2}
\* The element type T, two distinguishable values.
Values == {"a", "b"}

VARIABLES
    overflow_checks,  \* build profile: TRUE = overflow panics, FALSE = it wraps
    alive,            \* a Vec2d exists (constructed, not yet consumed)
    tiles,            \* Vec2d.tiles
    width,            \* Vec2d.width
    panicked,         \* the program has panicked
    last              \* the last call: name, arguments, outcome

vars == <<overflow_checks, alive, tiles, width, panicked, last>>

----------------------------------------------------------------------------
\* usize arithmetic: `a * b` and `a + b` panic on overflow when the build has
\* overflow checks, and wrap modulo 2^bits otherwise.
Panic == [kind |-> "Panic"]
None == [kind |-> "None"]
Some(i, v) == [kind |-> "Some", idx |-> i, val |-> v]
Ref(i, v) == [kind |-> "Ref", idx |-> i, val |-> v]
Num(n) == [kind |-> "Num", val |-> n]

UsizeMul(a, b, checks) ==
    IF a * b >= Modulus /\ checks THEN Panic ELSE Num((a * b) % Modulus)

UsizeAdd(a, b, checks) ==
    IF a + b >= Modulus /\ checks THEN Panic ELSE Num((a + b) % Modulus)

\* y * self.width + x
LinearIndex_ColumnMajor(w, x, y, checks) ==
    LET m == UsizeMul(x, w, checks)
    IN  IF m.kind = "Panic" THEN Panic ELSE UsizeAdd(m.val, y, checks)

LinearIndex(w, x, y, checks) ==
    LET m == UsizeMul(y, w, checks)
    IN  IF m.kind = "Panic" THEN Panic ELSE UsizeAdd(m.val, x, checks)

\* n clones of default pushed one by one, then default itself
RECURSIVE PushClones(_, _)
PushClones(default, n) ==
    IF n = 0 THEN <<>> ELSE Append(PushClones(default, n - 1), default)

\* Vec2d::new
new(default, w, h, checks) ==
    LET m == UsizeMul(w, h, checks)
    IN  IF m.kind = "Panic" THEN Panic
        ELSE LET no_tiles == m.val
             IN  IF no_tiles = 0
                 THEN [kind |-> "Err", err |-> "WidthOrHeightIs0"]
                 ELSE [kind |-> "Ok",
                       tiles |-> Append(PushClones(default, no_tiles - 1), default),
                       width |-> w]

\* Vec2d::new_from_vec
new_from_vec_NoZeroCheck(input, w) ==
    IF w = 0 THEN Panic
    ELSE IF Len(input) % w # 0
    THEN [kind |-> "Err", err |-> "InputNotDivisibleByWidth"]
    ELSE [kind |-> "Ok", tiles |-> input, width |-> w]

new_from_vec(input, w) ==
    IF Len(input) = 0 \/ w = 0
    THEN [kind |-> "Err", err |-> "WidthOrInputLenIs0"]
    ELSE IF Len(input) % w # 0
    THEN [kind |-> "Err", err |-> "InputNotDivisibleByWidth"]
    ELSE [kind |-> "Ok", tiles |-> input, width |-> w]

\* Vec2d::width, Vec2d::height
widthOf(t, w) == w

height(t, w) == IF w = 0 THEN Panic ELSE Num(Len(t) \div widthOf(t, w))

\* Vec2d::get / Vec2d::get_mut: the slot the Option refers to
get(t, w, x, y, checks) ==
    IF x >= w THEN None
    ELSE LET i == LinearIndex(w, x, y, checks)
         IN  IF i.kind = "Panic" THEN Panic
             ELSE IF i.val < Len(t) THEN Some(i.val, t[i.val + 1]) ELSE None

get_mut(t, w, x, y, checks) == get(t, w, x, y, checks)

\* Index<Pos>::index / IndexMut<Pos>::index_mut
index(t, w, x, y, checks) ==
    IF x >= w THEN Panic
    ELSE LET i == LinearIndex(w, x, y, checks)
         IN  IF i.kind = "Panic" THEN Panic
             ELSE IF i.val < Len(t) THEN Ref(i.val, t[i.val + 1]) ELSE Panic

index_mut(t, w, x, y, checks) == index(t, w, x, y, checks)

\* Vec2d::tiles
tilesOf(t, w) == t

\* Vec2d::to_vec
to_vec_DropsLast(t, w) == SubSeq(t, 1, Len(t) - 1)

to_vec(t, w) == t

\* Vec2d::get_row / Vec2d::get_row_mut: the backing range [lo, hi) and its slice
get_row(t, w, y) ==
    IF w = 0 THEN Panic
    ELSE IF y >= Len(t) \div w THEN None
    ELSE [kind |-> "Some", lo |-> y * w, hi |-> (y + 1) * w,
          val |-> SubSeq(t, y * w + 1, (y + 1) * w)]

get_row_mut(t, w, y) == get_row(t, w, y)

\* slice::rchunks(n) / rchunks_mut(n) over a slice of length len: the backing
\* ranges [lo, hi) in the order the iterator yields them, starting at the END
\* of the slice; the last one yielded may be shorter than n.
RECURSIVE rchunks(_, _)
rchunks(len, n) ==
    IF len = 0 THEN <<>>
    ELSE IF len <= n THEN <<[lo |-> 0, hi |-> len]>>
    ELSE <<[lo |-> len - n, hi |-> len]>> \o rchunks(len - n, n)

Slice(t, r) == SubSeq(t, r.lo + 1, r.hi)

\* Vec2d::iter_rows / Vec2d::iter_rows_mut
iter_rows(t, w) ==
    IF w = 0 THEN Panic
    ELSE [kind |-> "Iter",
          ranges |-> rchunks(Len(t), w),
          rows |-> [k \in 1 .. Len(rchunks(Len(t), w)) |->
                       Slice(t, rchunks(Len(t), w)[k])]]

iter_rows_mut(t, w) == iter_rows(t, w)

\* Vec2d::iter_with_pos / Vec2d::iter_with_pos_mut: enumerate() then
\* x = nr % width, y = nr / width
iter_with_pos_Transposed(t, w) ==
    IF w = 0 THEN Panic
    ELSE [kind |-> "Iter",
          items |-> [k \in 1 .. Len(t) |->
                       [pos |-> <<(k - 1) \div w, (k - 1) % w>>,
                        nr |-> k - 1, tile |-> t[k]]]]

iter_with_pos(t, w) ==
    IF w = 0 THEN Panic
    ELSE [kind |-> "Iter",
          items |-> [k \in 1 .. Len(t) |->
                       [pos |-> <<(k - 1) % w, (k - 1) \div w>>,
                        nr |-> k - 1, tile |-> t[k]]]]

iter_with_pos_mut(t, w) == iter_with_pos(t, w)

\* Vec2d::iter_xy: (0..width).map(|i| (i, 0..height))
iter_xy(t, w) ==
    IF w = 0 THEN Panic
    ELSE [kind |-> "Iter",
          items |-> [k \in 1 .. w |-> [x |-> k - 1, ys |-> 0 .. (height(t, w).val - 1)]]]

\* The closures handed to for_each_tile: |tile| *tile = 'a', |tile| *tile = 'b',
\* and one that flips the tile.
Funs == {"set_a", "set_b", "flip"}
Apply(fun, v) ==
    CASE fun = "set_a" -> "a"
      [] fun = "set_b" -> "b"
      [] fun = "flip" -> IF v = "a" THEN "b" ELSE "a"

\* Vec2d::for_each_tile: self.tiles.iter_mut().for_each(fun), from backing
\* index i on; visits is the order in which fun saw the backing indices.
RECURSIVE ForEachFrom(_, _, _, _)
ForEachFrom(t, fun, i, visits) ==
    IF i >= Len(t) THEN [tiles |-> t, visits |-> visits]
    ELSE ForEachFrom([t EXCEPT ![i + 1] = Apply(fun, t[i + 1])], fun, i + 1,
                     Append(visits, i))

for_each_tile(t, fun) == ForEachFrom(t, fun, 0, <<>>)

----------------------------------------------------------------------------
Inputs == UNION {[1 .. n -> Values] : n \in 0 .. MaxLen}

Init ==
    /\ overflow_checks \in BOOLEAN
    /\ alive = FALSE
    /\ tiles = <<>>
    /\ width = 0
    /\ panicked = FALSE
    /\ last = [op |-> "none"]

Construct(r) ==
    /\ panicked' = (r.kind = "Panic")
    /\ alive' = (r.kind = "Ok")
    /\ tiles' = IF r.kind = "Ok" THEN r.tiles ELSE <<>>
    /\ width' = IF r.kind = "Ok" THEN r.width ELSE 0
    /\ UNCHANGED overflow_checks

New ==
    /\ ~alive /\ ~panicked
    /\ \E default \in Values, w \in Usize, h \in Usize :
         LET r == new(default, w, h, overflow_checks)
         IN  /\ r.kind = "Ok" => Len(r.tiles) <= MaxLen
             /\ Construct(r)
             /\ last' = [op |-> "new", default |-> default, w |-> w, h |-> h,
                         result |-> r.kind,
                         err |-> IF r.kind = "Err" THEN r.err ELSE "-"]

NewFromVec ==
    /\ ~alive /\ ~panicked
    /\ \E input \in Inputs, w \in Usize :
         LET r == new_from_vec(input, w)
         IN  /\ Construct(r)
             /\ last' = [op |-> "new_from_vec", input |-> input, w |-> w,
                         result |-> r.kind,
                         err |-> IF r.kind = "Err" THEN r.err ELSE "-"]

Live == alive /\ ~panicked

\* A call that leaves the grid as it is: record it; a panic ends the program.
Observe(rec) ==
    /\ last' = rec
    /\ panicked' = (rec.result.kind = "Panic")
    /\ UNCHANGED <<overflow_checks, alive, tiles, width>>

\* A call that may write: t is the backing Vec afterwards.
Mutate(rec, t) ==
    /\ last' = rec
    /\ panicked' = (rec.result.kind = "Panic")
    /\ tiles' = t
    /\ UNCHANGED <<overflow_checks, alive, width>>

Tiles ==
    /\ Live
    /\ Observe([op |-> "tiles", result |-> [kind |-> "Vec", val |-> tilesOf(tiles, width)]])

Width ==
    /\ Live
    /\ Observe([op |-> "width", result |-> Num(widthOf(tiles, width))])

Height ==
    /\ Live
    /\ Observe([op |-> "height", result |-> height(tiles, width)])

Get ==
    /\ Live
    /\ \E x \in Coords, y \in Coords :
         Observe([op |-> "get", x |-> x, y |-> y,
                  result |-> get(tiles, width, x, y, overflow_checks)])

\* get_mut(x, y), and when it gives Some(tile): *tile = v
GetMut ==
    /\ Live
    /\ \E x \in Coords, y \in Coords, v \in Values :
         LET r == get_mut(tiles, width, x, y, overflow_checks)
         IN  Mutate([op |-> "get_mut", x |-> x, y |-> y, v |-> v, result |-> r,
                     before |-> [tiles |-> tiles, width |-> width]],
                    IF r.kind = "Some" THEN [tiles EXCEPT ![r.idx + 1] = v] ELSE tiles)

\* grid[(x, y)]
IndexAt ==
    /\ Live
    /\ \E x \in Coords, y \in Coords :
         Observe([op |-> "index", x |-> x, y |-> y,
                  result |-> index(tiles, width, x, y, overflow_checks)])

\* grid[(x, y)] = v
IndexMutAt ==
    /\ Live
    /\ \E x \in Coords, y \in Coords, v \in Values :
         LET r == index_mut(tiles, width, x, y, overflow_checks)
         IN  Mutate([op |-> "index_mut", x |-> x, y |-> y, v |-> v, result |-> r,
                     before |-> [tiles |-> tiles, width |-> width]],
                    IF r.kind = "Ref" THEN [tiles EXCEPT ![r.idx + 1] = v] ELSE tiles)

GetRow ==
    /\ Live
    /\ \E y \in Coords :
         Observe([op |-> "get_row", y |-> y, result |-> get_row(tiles, width, y)])

\* get_row_mut(y), and when it gives Some(row): row[j] = v
GetRowMut ==
    /\ Live
    /\ \E y \in Coords, j \in 0 .. (MaxLen - 1), v \in Values :
         LET r == get_row_mut(tiles, width, y)
         IN  /\ r.kind = "Some" => j < r.hi - r.lo
             /\ r.kind # "Some" => j = 0
             /\ Mutate([op |-> "get_row_mut", y |-> y, j |-> j, v |-> v, result |-> r,
                        before |-> [tiles |-> tiles, width |-> width]],
                       IF r.kind = "Some" THEN [tiles EXCEPT ![r.lo + j + 1] = v]
                       ELSE tiles)

ForEachTile ==
    /\ Live
    /\ \E fun \in Funs :
         LET r == for_each_tile(tiles, fun)
         IN  Mutate([op |-> "for_each_tile", fun |-> fun,
                     result |-> [kind |-> "Unit", visits |-> r.visits],
                     before |-> [tiles |-> tiles, width |-> width]],
                    r.tiles)

IterXY ==
    /\ Live
    /\ Observe([op |-> "iter_xy", result |-> iter_xy(tiles, width)])

IterRows ==
    /\ Live
    /\ Observe([op |-> "iter_rows", result |-> iter_rows(tiles, width)])

\* for row in iter_rows_mut(): the k-th row yielded gets row[j] = v
IterRowsMut ==
    /\ Live
    /\ LET r == iter_rows_mut(tiles, width)
       IN  \E k \in 1 .. Len(r.ranges), j \in 0 .. (MaxLen - 1), v \in Values :
             /\ j < r.ranges[k].hi - r.ranges[k].lo
             /\ Mutate([op |-> "iter_rows_mut", k |-> k, j |-> j, v |-> v,
                        result |-> r, before |-> [tiles |-> tiles, width |-> width]],
                       [tiles EXCEPT ![r.ranges[k].lo + j + 1] = v])

IterWithPos ==
    /\ Live
    /\ Observe([op |-> "iter_with_pos", result |-> iter_with_pos(tiles, width)])

\* for (pos, tile) in iter_with_pos_mut(): the k-th item yielded gets *tile = v
IterWithPosMut ==
    /\ Live
    /\ LET r == iter_with_pos_mut(tiles, width)
       IN  \E k \in 1 .. Len(r.items), v \in Values :
             Mutate([op |-> "iter_with_pos_mut", k |-> k, v |-> v,
                     result |-> r, before |-> [tiles |-> tiles, width |-> width]],
                    [tiles EXCEPT ![r.items[k].nr + 1] = v])

\* to_vec(self): the grid is consumed
ToVec ==
    /\ Live
    /\ last' = [op |-> "to_vec",
                result |-> [kind |-> "Vec", val |-> to_vec(tiles, width)],
                before |-> [tiles |-> tiles, width |-> width],
                after |-> last.op,
                input |-> IF last.op = "new_from_vec" THEN last.input ELSE <<>>]
    /\ alive' = FALSE
    /\ tiles' = <<>>
    /\ width' = 0
    /\ UNCHANGED <<overflow_checks, panicked>>

Next ==
    \/ New
    \/ NewFromVec
    \/ Tiles
    \/ Width
    \/ Height
    \/ Get
    \/ GetMut
    \/ IndexAt
    \/ IndexMutAt
    \/ GetRow
    \/ GetRowMut
    \/ ForEachTile
    \/ IterXY
    \/ IterRows
    \/ IterRowsMut
    \/ IterWithPos
    \/ IterWithPosMut
    \/ ToVec

Spec == Init /\ [][Next]_vars

\* Construction, the coordinate accessors, and consumption.
NextAccess ==
    \/ New
    \/ NewFromVec
    \/ Get
    \/ GetMut
    \/ IndexAt
    \/ IndexMutAt
    \/ ToVec

SpecAccess == Init /\ [][NextAccess]_vars

\* Construction, the bulk operation, the rows and the iterators.
NextIter ==
    \/ New
    \/ NewFromVec
    \/ Height
    \/ GetRow
    \/ GetRowMut
    \/ ForEachTile
    \/ IterRows
    \/ IterRowsMut
    \/ IterWithPos
    \/ IterWithPosMut
    \/ ToVec

SpecIter == Init /\ [][NextIter]_vars

----------------------------------------------------------------------------
\* The grid a call was made on: the one before the write for a call that may
\* write, the current one otherwise.
Before ==
    IF last.op \in {"get_mut", "index_mut", "get_row_mut", "for_each_tile",
                    "iter_rows_mut", "iter_with_pos_mut", "to_vec"}
    THEN last.before
    ELSE [tiles |-> tiles, width |-> width]

\* width > 0, a non-empty backing Vec, its length a multiple of width
ShapeOk(t, w) == w > 0 /\ Len(t) > 0 /\ Len(t) % w = 0

\* (x, y) is a valid position: x < width and y < height
ValidPos(t, w, x, y) == w > 0 /\ x < w /\ y < Len(t) \div w

Copies(v, n) == [i \in 1 .. n |-> v]

\* C1: get(x, y) and get_mut(x, y) give the element at backing index
\* y*width + x when x < width and y < height, give None for every other
\* position, and never panic.  Stated for grids of a valid shape.
GetContract ==
    (last.op \in {"get", "get_mut"} /\ ShapeOk(Before.tiles, Before.width)) =>
        LET t == Before.tiles
            w == Before.width
            x == last.x
            y == last.y
        IN  /\ last.result.kind # "Panic"
            /\ ValidPos(t, w, x, y) => last.result = Some(y * w + x, t[y * w + x + 1])
            /\ ~ValidPos(t, w, x, y) => last.result = None

\* C2: every grid built by new or new_from_vec has width > 0, a non-empty
\* backing Vec whose length is a multiple of width, length = width() * height()
\* and height() = length / width, and no later call changes width or length.
ShapeHolds(t, w) ==
    /\ ShapeOk(t, w)
    /\ height(t, w) = Num(Len(t) \div w)
    /\ Len(t) = widthOf(t, w) * height(t, w).val

ShapeInvariant ==
    [][/\ alive' => ShapeHolds(tiles', width')
       /\ (alive /\ alive') => (width' = width /\ Len(tiles') = Len(tiles))]_vars

\* C3: new(v, w, h) is Err(WidthOrHeightIs0) if w = 0 or h = 0, and otherwise
\* Ok with a backing Vec of exactly w*h copies of v, width() = w, height() = h.
NewContract ==
    last.op = "new" =>
        IF last.w = 0 \/ last.h = 0
        THEN last.result = "Err" /\ last.err = "WidthOrHeightIs0"
        ELSE /\ last.result = "Ok"
             /\ tilesOf(tiles, width) = Copies(last.default, last.w * last.h)
             /\ widthOf(tiles, width) = last.w
             /\ height(tiles, width) = Num(last.h)

\* C4: new_from_vec(input, w) is Err(WidthOrInputLenIs0) when input is empty or
\* w = 0 (and does not panic on the remainder), otherwise
\* Err(InputNotDivisibleByWidth) when input.len() % w # 0, otherwise Ok with
\* the backing Vec equal to input, width() = w, height() = input.len() / w.
NewFromVecContract ==
    last.op = "new_from_vec" =>
        IF Len(last.input) = 0 \/ last.w = 0
        THEN last.result = "Err" /\ last.err = "WidthOrInputLenIs0" /\ ~alive
        ELSE IF Len(last.input) % last.w # 0
        THEN last.result = "Err" /\ last.err = "InputNotDivisibleByWidth" /\ ~alive
        ELSE /\ last.result = "Ok" /\ alive
             /\ tilesOf(tiles, width) = last.input
             /\ widthOf(tiles, width) = last.w
             /\ height(tiles, width) = Num(Len(last.input) \div last.w)

NewFromVecWitness ==
    /\ last.op = "new_from_vec" /\ last.result = "Ok"
    /\ last.input = <<"a", "b", "b", "a">> /\ last.w = 2
    /\ tiles = <<"a", "b", "b", "a">> /\ width = 2

\* C5: grid[(x, y)] gives the element at backing index y*width + x, the one
\* get(x, y) gives, at every valid position, and panics at every other one; it
\* never gives an element where get gives None.  Stated for grids of a valid
\* shape.
IndexContract ==
    (last.op \in {"index", "index_mut"} /\ ShapeOk(Before.tiles, Before.width)) =>
        LET t == Before.tiles
            w == Before.width
            x == last.x
            y == last.y
            g == get(t, w, x, y, overflow_checks)
        IN  /\ ValidPos(t, w, x, y) =>
                /\ last.result = Ref(y * w + x, t[y * w + x + 1])
                /\ g.kind = "Some" /\ g.idx = last.result.idx /\ g.val = last.result.val
            /\ ~ValidPos(t, w, x, y) => last.result = Panic
            /\ g = None => last.result.kind # "Ref"

\* C6: to_vec consumes the grid and returns the backing Vec unchanged, so
\* new_from_vec(seq, w).to_vec() = seq whenever new_from_vec succeeds.
RoundTrip ==
    last.op = "to_vec" =>
        /\ ~alive
        /\ last.result.val = last.before.tiles
        /\ last.after = "new_from_vec" => last.result.val = last.input

RoundTripWitness ==
    /\ last.op = "to_vec" /\ last.after = "new_from_vec"
    /\ last.input = <<"a", "b", "b", "a">>
    /\ last.before.width = 2
    /\ last.result.val = <<"a", "b", "b", "a">>

\* C7: on a grid of a valid shape iter_with_pos() and iter_with_pos_mut() yield
\* exactly width*height items ((x, y), tile) in backing order with x varying
\* fastest; every valid position appears exactly once and no other one, and
\* each tile is grid[(x, y)], the element at backing index y*width + x.  A
\* write through the k-th item of iter_with_pos_mut lands on that element.
IterWithPosContract ==
    (last.op \in {"iter_with_pos", "iter_with_pos_mut"}
        /\ ShapeOk(Before.tiles, Before.width)) =>
        LET t == Before.tiles
            w == Before.width
            h == height(t, w).val
            items == last.result.items
        IN  /\ last.result.kind = "Iter"
            /\ Len(items) = w * h
            /\ \A x \in 0 .. (w - 1), y \in 0 .. (h - 1) :
                 Cardinality({k \in 1 .. Len(items) : items[k].pos = <<x, y>>}) = 1
            /\ \A k \in 1 .. Len(items) :
                 LET x == items[k].pos[1]
                     y == items[k].pos[2]
                 IN  /\ ValidPos(t, w, x, y)
                     /\ index(t, w, x, y, overflow_checks) = Ref(y * w + x, items[k].tile)
                     /\ items[k].nr = y * w + x
                     /\ items[k].nr = k - 1
            /\ last.op = "iter_with_pos_mut" =>
                 LET x == items[last.k].pos[1]
                     y == items[last.k].pos[2]
                 IN  tiles = [t EXCEPT ![y * w + x + 1] = last.v]

IterWithPosWitness ==
    /\ last.op = "iter_with_pos_mut"
    /\ last.before.tiles = <<"a", "a", "b", "a">> /\ width = 2
    /\ last.k = 2 /\ last.v = "b"
    /\ last.result.items[2].pos = <<1, 0>>
    /\ tiles = <<"a", "b", "b", "a">>

\* C8: for_each_tile(f) applies f to every element exactly once, in backing
\* order, and changes neither width nor height; after for_each_tile with a
\* function that sets each element to a constant c, tiles() is exactly
\* width*height copies of c.
ForEachTileContract ==
    last.op = "for_each_tile" =>
        LET t == Before.tiles
            w == Before.width
        IN  /\ last.result.visits = [i \in 1 .. Len(t) |-> i - 1]
            /\ tiles = [i \in 1 .. Len(t) |-> Apply(last.fun, t[i])]
            /\ widthOf(tiles, width) = w
            /\ height(tiles, width) = height(t, w)
            /\ last.fun = "set_b" =>
                 tilesOf(tiles, width) =
                     Copies("b", widthOf(tiles, width) * height(tiles, width).val)

\* C9: iter_rows() and iter_rows_mut() yield exactly height() rows of width
\* elements each, first row first: the k-th row yielded is get_row(k), the
\* backing range [k*width, (k+1)*width).  Stated for grids of a valid shape.
IterRowsForward ==
    (last.op \in {"iter_rows", "iter_rows_mut"}
        /\ ShapeOk(Before.tiles, Before.width)) =>
        LET t == Before.tiles
            w == Before.width
            rows == last.result.rows
        IN  /\ Len(rows) = height(t, w).val
            /\ \A k \in 1 .. Len(rows) :
                 /\ Len(rows[k]) = w
                 /\ last.result.ranges[k] = [lo |-> (k - 1) * w, hi |-> k * w]
                 /\ get_row(t, w, k - 1).kind = "Some"
                 /\ rows[k] = get_row(t, w, k - 1).val

\* C10: a write of v at a valid position (x, y) through get_mut(x, y) or
\* grid[(x, y)] = v changes exactly the backing element y*width + x: get(x, y)
\* then gives v, every other valid position keeps its value, width() and
\* height() are unchanged; a get_mut that gives None changes nothing.
WriteFrame ==
    last.op \in {"get_mut", "index_mut"} =>
        LET t == Before.tiles
            w == Before.width
            x == last.x
            y == last.y
        IN  /\ ValidPos(t, w, x, y) =>
                /\ last.result.kind = (IF last.op = "get_mut" THEN "Some" ELSE "Ref")
                /\ last.result.idx = y * w + x
                /\ tiles = [t EXCEPT ![y * w + x + 1] = last.v]
                /\ get(tiles, width, x, y, overflow_checks) = Some(y * w + x, last.v)
                /\ \A x2 \in 0 .. (w - 1), y2 \in 0 .. ((Len(t) \div w) - 1) :
                     <<x2, y2>> # <<x, y>> =>
                         get(tiles, width, x2, y2, overflow_checks)
                             = get(t, w, x2, y2, overflow_checks)
            /\ widthOf(tiles, width) = widthOf(t, w)
            /\ height(tiles, width) = height(t, w)
            /\ last.result = None => tiles = t

WriteFrameWitness ==
    /\ last.op = "get_mut" /\ last.x = 1 /\ last.y = 1 /\ last.v = "b"
    /\ last.result.kind = "Some"
    /\ last.before.tiles = <<"a", "a", "a", "a">> /\ width = 2
    /\ tiles = <<"a", "a", "a", "b">>
====
